---- MODULE Spec2Model ----
(***************************************************************************)
(* A model of wsf2019/stac.py: reproject_geom (with its inner fn),         *)
(* create_full_extent (get_spatial_extent, get_temporal_extent),           *)
(* create_item and create_collection.                                      *)
(*                                                                         *)
(* Numbers are fixed-point: an integer n stands for n * 10^-Digits.        *)
(* Python objects with identity (dict, list, tuple) live in `heap`, a      *)
(* sequence of objects addressed by index; a value that is held in a       *)
(* container is an element: a number, or a reference to a heap object.     *)
(***************************************************************************)
EXTENDS Integers, Sequences, FiniteSets, TLC

VARIABLES
    heap,            \* reproject_geom: the object store
    geom,            \* reproject_geom: element referring to the argument dict
    geom_in,         \* reproject_geom: the argument's value when the call starts
    src_crs,         \* reproject_geom: argument
    dest_crs,        \* reproject_geom: argument
    precision,       \* reproject_geom: argument (None or a digit count)
    result,          \* reproject_geom: [st, e]: not called / returned e / raised st
    stac_item_list,  \* create_full_extent: argument
    extent,          \* create_full_extent: [st, spatial, temporal]
    constructed,     \* create_full_extent: the pystac values the call constructed
    cog_href,        \* create_item: argument, a sequence of characters
    ds,              \* create_item: the raster dataset rio.open(cog_href) gives
    collection,      \* create_item: argument
    item,            \* create_item: [st, ...the item's fields]
    items,           \* a catalog build: the items created so far
    built_collection \* a catalog build: what create_collection returned

geomVars == <<heap, geom, geom_in, src_crs, dest_crs, precision, result>>
extentVars == <<stac_item_list, extent, constructed>>
itemVars == <<cog_href, ds, collection, item>>
catalogVars == <<items, built_collection>>
vars == <<geomVars, extentVars, itemVars, catalogVars>>

\* Python's None where a digit count is expected (no digit count is negative here)
None == -1

-----------------------------------------------------------------------------
(* Bounds and sample inputs                                                *)

\* decimal digits carried by a modelled number
Digits == 2
\* largest number of nodes (numbers and sequences) of a coordinate tree
MaxNodes == 7

\* sample leaf numbers (1.25 when Digits = 2)
CoordValues == {125}
Precisions == {None, 0, 1}
GeomCRSs == {"epsg:32633", "bogus"}
Kinds == {"list", "tuple"}

-----------------------------------------------------------------------------
(* Values: a coordinate tree is a number or a list/tuple of trees          *)

TNum(n) == [k |-> "num", v |-> n, c |-> <<>>]
TSeq(kind, kids) == [k |-> kind, v |-> 0, c |-> kids]

RECURSIVE TreesOfSize(_, _)
RECURSIVE ForestsOfSize(_, _)
TreesOfSize(n, kind) ==
    (IF n = 1 THEN {TNum(v) : v \in CoordValues} ELSE {})
        \cup {TSeq(kind, f) : f \in ForestsOfSize(n - 1, kind)}
ForestsOfSize(m, kind) ==
    IF m = 0 THEN {<<>>}
    ELSE UNION {{<<t>> \o f : t \in TreesOfSize(j, kind),
                              f \in ForestsOfSize(m - j, kind)} : j \in 1..m}

IsNum(t) == t.k = "num"

\* a node below the top that is exactly [number, sequence]: fn unpacks it as
\* x, y and hands a sequence to the transformer, whose answer is the
\* library's, not this repository's; such trees are left out of the inputs
RECURSIVE HasScalarSeqPair(_, _)
HasScalarSeqPair(t, top) ==
    /\ ~IsNum(t)
    /\ \/ (~top /\ Len(t.c) = 2 /\ IsNum(t.c[1]) /\ ~IsNum(t.c[2]))
       \/ \E i \in 1..Len(t.c) : HasScalarSeqPair(t.c[i], FALSE)

CoordTrees(kind) ==
    {t \in UNION {TreesOfSize(n, kind) : n \in 1..MaxNodes} :
        ~HasScalarSeqPair(t, TRUE)}

\* a GeoJSON geometry dict; only its "coordinates" member is read by the code
TDict(coords) == [k |-> "dict", v |-> 0, c |-> <<coords>>]

-----------------------------------------------------------------------------
(* The object store                                                        *)

ENum(n) == [k |-> "num", v |-> n]
ERef(a) == [k |-> "ref", v |-> a]
Obj(kind, elems) == [k |-> kind, c |-> elems]

RECURSIVE alloc(_, _)
RECURSIVE allocAll(_, _)
alloc(h, t) ==
    IF IsNum(t) THEN [h |-> h, e |-> ENum(t.v)]
    ELSE LET r == allocAll(h, t.c)
         IN  [h |-> Append(r.h, Obj(t.k, r.es)), e |-> ERef(Len(r.h) + 1)]
allocAll(h, ts) ==
    IF ts = <<>> THEN [h |-> h, es |-> <<>>]
    ELSE LET a == alloc(h, Head(ts))
             r == allocAll(a.h, Tail(ts))
         IN  [h |-> r.h, es |-> <<a.e>> \o r.es]

\* the value an element denotes
RECURSIVE Value(_, _)
Value(h, e) ==
    IF e.k = "num" THEN TNum(e.v)
    ELSE [k |-> h[e.v].k, v |-> 0,
          c |-> [i \in 1..Len(h[e.v].c) |-> Value(h, h[e.v].c[i])]]

\* the addresses of the objects reachable from an element
RECURSIVE Reach(_, _)
Reach(h, e) ==
    IF e.k = "num" THEN {}
    ELSE {e.v} \cup UNION {Reach(h, h[e.v].c[i]) : i \in 1..Len(h[e.v].c)}

SetItem(h, a, i, e) == [h EXCEPT ![a].c[i] = e]

Raise(h, exc) == [h |-> h, e |-> ENum(0), err |-> exc]
Return(h, e) == [h |-> h, e |-> e, err |-> "none"]

-----------------------------------------------------------------------------
(* reproject_geom                                                          *)

deepcopy_alias(h, e) == [h |-> h, e |-> e]

\* copy.deepcopy on numbers, lists, tuples and dicts (no shared substructure)
RECURSIVE deepcopy(_, _)
RECURSIVE deepcopyAll(_, _)
deepcopy(h, e) ==
    IF e.k = "num" THEN [h |-> h, e |-> e]
    ELSE LET r == deepcopyAll(h, h[e.v].c)
         IN  IF h[e.v].k = "tuple" /\ r.es = h[e.v].c
             THEN [h |-> r.h, e |-> e]
             ELSE [h |-> Append(r.h, Obj(h[e.v].k, r.es)),
                   e |-> ERef(Len(r.h) + 1)]
deepcopyAll(h, es) ==
    IF es = <<>> THEN [h |-> h, es |-> <<>>]
    ELSE LET a == deepcopy(h, Head(es))
             r == deepcopyAll(a.h, Tail(es))
         IN  [h |-> r.h, es |-> <<a.e>> \o r.es]

\* pyproj.Transformer.from_crs resolves both identifiers or raises CRSError
ValidCRS(crs) == crs \in {"epsg:32633", "epsg:4326"}

\* transformer.transform(x, y), always_xy: a stand-in for the projection, an
\* injective map of the plane that is the identity between equal CRSs
transform(src, dst, x, y) ==
    IF src = dst THEN <<x, y>> ELSE <<2 * x - 125, 0 - (y + 8)>>

RECURSIVE Pow10(_)
Pow10(n) == IF n <= 0 THEN 1 ELSE 10 * Pow10(n - 1)

round_floor(n, p) ==
    IF p >= Digits THEN n
    ELSE (n \div Pow10(Digits - p)) * Pow10(Digits - p)

\* round(n, p): to the nearest multiple of 10^-p, a tie to the even one
round(n, p) ==
    IF p >= Digits THEN n
    ELSE LET s == Pow10(Digits - p)
             q == n \div s
             r == n - q * s
         IN  IF 2 * r < s THEN q * s
             ELSE IF 2 * r > s THEN (q + 1) * s
             ELSE IF q % 2 = 0 THEN q * s ELSE (q + 1) * s

\* lines 91-96: the reprojected, optionally rounded pair
reprojected_coords(P, x, y) ==
    LET t == transform(P.src, P.dst, x, y)
    IN  IF P.precision # None
        THEN <<round(t[1], P.precision), round(t[2], P.precision)>>
        ELSE t

RECURSIVE fn(_, _, _)
RECURSIVE fnLoop(_, _, _, _)
\* coords = list(coords), then the loop over range(0, len(coords))
fn(h, coords, P) ==
    IF coords.k = "num" THEN Raise(h, "TypeError")
    ELSE LET h1 == Append(h, Obj("list", h[coords.v].c))
         IN  fnLoop(h1, Len(h1), 1, P)
\* the loop body for index i of the list at address a
fnLoop(h, a, i, P) ==
    IF i > Len(h[a].c) THEN Return(h, ERef(a))
    ELSE LET coord == h[a].c[i]
         IN  IF coord.k = "num" THEN Raise(h, "TypeError")
             ELSE IF h[coord.v].c = <<>> THEN Raise(h, "IndexError")
             ELSE IF h[coord.v].c[1].k = "ref"
             THEN LET r == fn(h, coord, P)
                  IN  IF r.err # "none" THEN r
                      ELSE fnLoop(SetItem(r.h, a, i, r.e), a, i + 1, P)
             ELSE IF Len(h[coord.v].c) # 2 THEN Raise(h, "ValueError")
             ELSE LET xy == reprojected_coords(P, h[coord.v].c[1].v,
                                               h[coord.v].c[2].v)
                      h2 == Append(h, Obj("list", <<ENum(xy[1]), ENum(xy[2])>>))
                  IN  fnLoop(SetItem(h2, a, i, ERef(Len(h2))), a, i + 1, P)

reproject_geom(h, g, src, dst, prec) ==
    IF ~(ValidCRS(src) /\ ValidCRS(dst)) THEN Raise(h, "CRSError")
    ELSE LET d == deepcopy(h, g)
             r == fn(d.h, d.h[d.e.v].c[1],
                     [src |-> src, dst |-> dst, precision |-> prec])
         IN  IF r.err # "none" THEN r
             ELSE Return(SetItem(r.h, d.e.v, 1, r.e), d.e)

-----------------------------------------------------------------------------
(* Specification of one reproject_geom call                                *)

\* the variables of reproject_geom where no call of it is modelled
IdleGeom ==
    /\ heap = <<>>
    /\ geom = ENum(0)
    /\ geom_in = TNum(0)
    /\ src_crs = "epsg:4326"
    /\ dest_crs = "epsg:4326"
    /\ precision = None
    /\ result = [st |-> "not called", e |-> ENum(0)]

\* the variables of create_full_extent where no call of it is modelled
IdleExtent ==
    /\ stac_item_list = <<>>
    /\ extent = [st |-> "not called", spatial |-> <<>>, temporal |-> <<>>]
    /\ constructed = <<>>

\* the variables of create_item where no call of it is modelled
IdleItem ==
    /\ cog_href = <<>>
    /\ ds = <<>>
    /\ collection = [id |-> "None"]
    /\ item = [st |-> "not called"]

\* the variables of a catalog build where none is modelled
IdleCatalog ==
    /\ items = <<>>
    /\ built_collection = [id |-> "None"]

InitGeom ==
    /\ IdleExtent
    /\ IdleItem
    /\ IdleCatalog
    /\ \E kind \in Kinds : \E t \in CoordTrees(kind) :
          LET a == alloc(<<>>, TDict(t))
          IN  /\ heap = a.h
              /\ geom = a.e
              /\ geom_in = TDict(t)
    /\ src_crs \in GeomCRSs
    /\ dest_crs = "epsg:4326"
    /\ precision \in Precisions
    /\ result = [st |-> "not called", e |-> ENum(0)]

ReprojectGeom ==
    /\ result.st = "not called"
    /\ LET r == reproject_geom(heap, geom, src_crs, dest_crs, precision)
       IN  /\ heap' = r.h
           /\ result' = [st |-> IF r.err = "none" THEN "returned" ELSE r.err,
                         e |-> r.e]
    /\ UNCHANGED <<geom, geom_in, src_crs, dest_crs, precision>>
    /\ UNCHANGED <<extentVars, itemVars, catalogVars>>

NextGeom == ReprojectGeom

SpecGeom == InitGeom /\ [][NextGeom]_vars

-----------------------------------------------------------------------------
(* Properties of reproject_geom                                            *)

Called == result.st # "not called"
Returned == result.st = "returned"
\* the "coordinates" member of the argument and of the returned geometry
CoordsIn == geom_in.c[1]
CoordsOut == Value(heap, result.e).c[1]

\* nesting and child counts only: kinds and leaf values are dropped
RECURSIVE Shape(_)
Shape(t) ==
    IF IsNum(t) THEN [k |-> "num", c |-> <<>>]
    ELSE [k |-> "seq", c |-> [i \in 1..Len(t.c) |-> Shape(t.c[i])]]

\* a leaf pair of exactly two numbers, or a non-empty sequence of such nodes
RECURSIVE WellFormed(_)
WellFormed(t) ==
    /\ ~IsNum(t)
    /\ \/ (Len(t.c) = 2 /\ IsNum(t.c[1]) /\ IsNum(t.c[2]))
       \/ (Len(t.c) > 0 /\ \A i \in 1..Len(t.c) : WellFormed(t.c[i]))

\* the leaf pairs of a tree, left to right
RECURSIVE LeafPairs(_)
LeafPairs(t) ==
    IF IsNum(t) THEN <<>>
    ELSE IF Len(t.c) = 2 /\ IsNum(t.c[1]) /\ IsNum(t.c[2])
    THEN <<<<t.c[1].v, t.c[2].v>>>>
    ELSE LET RECURSIVE Cat(_)
             Cat(i) == IF i > Len(t.c) THEN <<>>
                       ELSE LeafPairs(t.c[i]) \o Cat(i + 1)
         IN  Cat(1)

Abs(n) == IF n < 0 THEN 0 - n ELSE n

\* r is v rounded to p decimal digits: a multiple of 10^-p nearest to v, the
\* even one of the two when v is half way
IsRounded(r, v, p) ==
    IF p >= Digits THEN r = v
    ELSE LET s == Pow10(Digits - p)
         IN  /\ r % s = 0
             /\ 2 * Abs(r - v) <= s
             /\ (2 * Abs(r - v) = s => (r \div s) % 2 = 0)

\* C1 (as stated): for every well-formed coordinate tree, a bare leaf pair
\* (a Point) included, reproject_geom returns a geometry whose coordinate
\* tree has the nesting and the child counts of the input.
C1_ShapePreserved ==
    (Called /\ ValidCRS(src_crs) /\ ValidCRS(dest_crs) /\ WellFormed(CoordsIn))
        => (Returned /\ Shape(CoordsOut) = Shape(CoordsIn))

\* The part of C1 the code keeps: whenever reproject_geom returns, the shape
\* is that of the input.
ShapePreservedOnReturn ==
    Returned => Shape(CoordsOut) = Shape(CoordsIn)

\* C6: after the call, returned or raised, the argument geometry has the
\* value it had before, and a returned geometry shares no object with it.
C6_InputNotMutated ==
    /\ Value(heap, geom) = geom_in
    /\ Returned => Reach(heap, result.e) \cap Reach(heap, geom) = {}

\* C6 witness: a call that returned a geometry whose leaves were replaced
C6_Witness ==
    /\ Returned
    /\ LeafPairs(CoordsIn) # <<>>
    /\ LeafPairs(CoordsOut) # LeafPairs(CoordsIn)

\* C8 (as stated, any exception read as the MalformedGeometry failure): a
\* coordinate tree with a node that is neither a leaf pair nor a non-empty
\* sequence of nodes makes reproject_geom raise; it never returns a geometry.
C8_MalformedRaises ==
    (Called /\ ValidCRS(src_crs) /\ ValidCRS(dest_crs) /\ ~WellFormed(CoordsIn))
        => ~Returned

\* What the code does with the trees C8 is about: among them only the empty
\* top-level sequence is returned (as an empty sequence); the others raise
\* TypeError, IndexError or ValueError.
MalformedOutcome ==
    (Called /\ ValidCRS(src_crs) /\ ValidCRS(dest_crs) /\ ~WellFormed(CoordsIn))
        => IF ~IsNum(CoordsIn) /\ CoordsIn.c = <<>>
           THEN Returned /\ CoordsOut.c = <<>>
           ELSE result.st \in {"TypeError", "IndexError", "ValueError"}

\* What the code does with well-formed trees: a bare leaf pair raises
\* TypeError, every other one is returned.
WellFormedOutcome ==
    (Called /\ ValidCRS(src_crs) /\ ValidCRS(dest_crs) /\ WellFormed(CoordsIn))
        => IF IsNum(CoordsIn.c[1]) THEN result.st = "TypeError" ELSE Returned

\* C9: with a precision p every output coordinate is the transformed
\* coordinate rounded to p digits; with None it is the transformed coordinate.
C9_Rounded ==
    Returned =>
        LET ins == LeafPairs(CoordsIn)
            outs == LeafPairs(CoordsOut)
        IN  /\ Len(outs) = Len(ins)
            /\ \A i \in 1..Len(ins) :
                  LET t == transform(src_crs, dest_crs, ins[i][1], ins[i][2])
                  IN  IF precision = None THEN outs[i] = t
                      ELSE /\ IsRounded(outs[i][1], t[1], precision)
                           /\ IsRounded(outs[i][2], t[2], precision)

\* C9 witness: a returned geometry with a coordinate that rounding changed
C9_Witness ==
    /\ Returned
    /\ precision # None
    /\ \E i \in 1..Len(LeafPairs(CoordsIn)) :
          LET t == transform(src_crs, dest_crs, LeafPairs(CoordsIn)[i][1],
                             LeafPairs(CoordsIn)[i][2])
          IN  LeafPairs(CoordsOut)[i] # t

-----------------------------------------------------------------------------
(* create_full_extent                                                      *)

\* at most this many items in the list handed to create_full_extent
MaxItems == 3

\* 1.0 as a modelled number
Unit == Pow10(Digits)

\* sample footprints (minx, miny, maxx, maxy), in degrees: four unit tiles of
\* a 2 x 2 block and a wide tile over its lower two
SampleBoxes ==
    {<<0, 0, 1, 1>>, <<1, 1, 2, 2>>, <<0, 1, 1, 2>>, <<1, 0, 2, 1>>,
     <<0, 0, 2, 1>>}
\* sample instants (years; the instant create_item gives every item is 2019)
Datetimes == {2018, 2019, 2020}

Pt(x, y) == TSeq("tuple", <<TNum(x), TNum(y)>>)

\* mapping(box(minx, miny, maxx, maxy)): a Polygon's coordinates, one closed
\* ring of the five corner points, as tuples of tuples
mapping_box(b) ==
    TDict(TSeq("tuple",
        <<TSeq("tuple", <<Pt(b[3], b[2]), Pt(b[3], b[4]), Pt(b[1], b[4]),
                          Pt(b[1], b[2]), Pt(b[3], b[2])>>)>>))

SampleItems ==
    {[geometry |-> mapping_box([i \in 1..4 |-> b[i] * Unit]), datetime |-> t] :
        b \in SampleBoxes, t \in Datetimes}

\* shape(geom) of a Polygon: the vertices of its exterior ring
shape(g) ==
    LET ring == g.c[1].c[1].c
    IN  [i \in 1..Len(ring) |-> <<ring[i].c[1].v, ring[i].c[2].v>>]

\* unary_union(polygons): the region the polygons cover together
unary_union(polygons) == {polygons[i] : i \in 1..Len(polygons)}

MinOf(S) == CHOOSE m \in S : \A n \in S : m <= n
MaxOf(S) == CHOOSE m \in S : \A n \in S : m >= n

\* .bounds of a region; of the empty region it is what the installed shapely
\* gives: () or four NaNs
bounds(region, empty_bounds) ==
    IF region = {} THEN empty_bounds
    ELSE LET xs == UNION {{poly[i][1] : i \in 1..Len(poly)} : poly \in region}
             ys == UNION {{poly[i][2] : i \in 1..Len(poly)} : poly \in region}
         IN  <<MinOf(xs), MinOf(ys), MaxOf(xs), MaxOf(ys)>>
EmptyBoundsOutcomes == {<<>>, <<"nan", "nan", "nan", "nan">>}

get_spatial_extent_first(polygons, empty_bounds) ==
    [bboxes |-> <<bounds({polygons[i] : i \in (1..Len(polygons)) \cap {1}},
                         empty_bounds)>>]

get_spatial_extent(polygons, empty_bounds) ==
    [bboxes |-> <<bounds(unary_union(polygons), empty_bounds)>>]

get_temporal_extent(starttime, endtime) ==
    [intervals |-> <<<<starttime, endtime>>>>]

min_first(seq) == seq[1]

\* min(seq) and max(seq) of a non-empty list: a scan keeping the first best
min(seq) ==
    LET RECURSIVE Scan(_, _)
        Scan(i, best) == IF i > Len(seq) THEN best
                         ELSE Scan(i + 1, IF seq[i] < best THEN seq[i] ELSE best)
    IN  Scan(2, seq[1])
max(seq) ==
    LET RECURSIVE Scan(_, _)
        Scan(i, best) == IF i > Len(seq) THEN best
                         ELSE Scan(i + 1, IF seq[i] > best THEN seq[i] ELSE best)
    IN  Scan(2, seq[1])

\* [st, spatial, temporal, constructed]; min() of an empty list raises
\* ValueError, after get_spatial_extent has run
create_full_extent(item_list, empty_bounds) ==
    LET polygons == [i \in 1..Len(item_list) |-> shape(item_list[i].geometry)]
        time_ranges == [i \in 1..Len(item_list) |-> item_list[i].datetime]
        spatial_extent == get_spatial_extent(polygons, empty_bounds)
    IN  IF time_ranges = <<>>
        THEN [st |-> "ValueError", spatial |-> <<>>, temporal |-> <<>>,
              constructed |-> <<[cls |-> "SpatialExtent", val |-> spatial_extent]>>]
        ELSE LET temporal_extent ==
                     get_temporal_extent(min(time_ranges), max(time_ranges))
             IN  [st |-> "returned", spatial |-> spatial_extent,
                  temporal |-> temporal_extent,
                  constructed |->
                      <<[cls |-> "SpatialExtent", val |-> spatial_extent],
                        [cls |-> "TemporalExtent", val |-> temporal_extent],
                        [cls |-> "Extent", val |-> <<>>]>>]

-----------------------------------------------------------------------------
(* Specification of calls of create_full_extent: on the empty list, then   *)
(* on the list of the call before or on that list with one more item       *)

InitExtent ==
    /\ IdleGeom
    /\ IdleExtent
    /\ IdleItem
    /\ IdleCatalog

CreateFullExtent ==
    \E lst \in {stac_item_list} \cup
               {Append(stac_item_list, it) :
                    it \in IF Len(stac_item_list) < MaxItems
                           THEN SampleItems ELSE {}} :
      \E eb \in IF lst = <<>> THEN EmptyBoundsOutcomes ELSE {<<>>} :
        LET r == create_full_extent(lst, eb)
        IN  /\ stac_item_list' = lst
            /\ extent' = [st |-> r.st, spatial |-> r.spatial,
                          temporal |-> r.temporal]
            /\ constructed' = r.constructed
            /\ UNCHANGED <<geomVars, itemVars, catalogVars>>

NextExtent == CreateFullExtent

SpecExtent == InitExtent /\ [][NextExtent]_vars

-----------------------------------------------------------------------------
(* Properties of create_full_extent                                        *)

ExtentReturned == extent.st = "returned"
BBox(e) == e.spatial.bboxes[1]

\* the corner points of an item's footprint, read from its geometry
Corners(it) ==
    LET ring == it.geometry.c[1].c[1].c
    IN  {<<ring[i].c[1].v, ring[i].c[2].v>> : i \in 1..Len(ring)}
\* the footprint of an item, a rectangle, as (minx, miny, maxx, maxy)
Rect(it) ==
    <<MinOf({p[1] : p \in Corners(it)}), MinOf({p[2] : p \in Corners(it)}),
      MaxOf({p[1] : p \in Corners(it)}), MaxOf({p[2] : p \in Corners(it)})>>
\* two rectangles share an interior point
Overlap(a, b) == a[1] < b[3] /\ b[1] < a[3] /\ a[2] < b[4] /\ b[2] < a[4]
\* the item's footprint shares no interior point with any footprint of others
OutsideUnion(it, others) ==
    \A i \in 1..Len(others) : ~Overlap(Rect(it), Rect(others[i]))
\* the item's footprint has a point outside the box
NotWithin(it, box) ==
    \E p \in Corners(it) :
        p[1] < box[1] \/ p[2] < box[2] \/ p[1] > box[3] \/ p[2] > box[4]
StrictlyLarger(new, old) ==
    new[1] < old[1] \/ new[2] < old[2] \/ new[3] > old[3] \/ new[4] > old[4]

\* a call on the list of the previous call with one item added, both returning
EnlargedCall ==
    /\ ExtentReturned
    /\ extent'.st = "returned"
    /\ Len(stac_item_list') = Len(stac_item_list) + 1
NewItem == stac_item_list'[Len(stac_item_list')]

\* C2 (as stated, any exception read as the EmptyExtent failure): on the
\* empty list create_full_extent raises and has built no SpatialExtent.
C2_EmptyRaisesNothingBuilt ==
    (extent.st # "not called" /\ stac_item_list = <<>>)
        => /\ ~ExtentReturned
           /\ \A i \in 1..Len(constructed) : constructed[i].cls # "SpatialExtent"

\* C3 (as stated): adding an item whose footprint shares no interior point
\* with the existing footprints makes the bounding box strictly larger on
\* at least one side.
C3_OutsideUnionEnlarges ==
    [][(EnlargedCall /\ OutsideUnion(NewItem, stac_item_list))
          => StrictlyLarger(BBox(extent'), BBox(extent))]_vars

\* C3 (amended): adding an item whose footprint has a point outside the
\* bounding box of the existing footprints makes the bounding box strictly
\* larger on at least one side.
C3_OutsideBoxEnlarges ==
    [][(EnlargedCall /\ NotWithin(NewItem, BBox(extent)))
          => StrictlyLarger(BBox(extent'), BBox(extent))]_vars

\* C3 witness: the extent of a list whose last item has a point outside the
\* rectangle spanned by the items before it
C3_Witness ==
    /\ ExtentReturned
    /\ Len(stac_item_list) >= 2
    /\ LET n == Len(stac_item_list)
           before == {Rect(stac_item_list[i]) : i \in 1..(n - 1)}
       IN  NotWithin(stac_item_list[n],
                     <<MinOf({r[1] : r \in before}), MinOf({r[2] : r \in before}),
                       MaxOf({r[3] : r \in before}), MaxOf({r[4] : r \in before})>>)

ItemTimes == {stac_item_list[i].datetime : i \in 1..Len(stac_item_list)}

\* C4: the temporal extent is the one interval from the earliest to the
\* latest item datetime, whatever the order of the items.
C4_TemporalMinMax ==
    ExtentReturned =>
        /\ Len(extent.temporal.intervals) = 1
        /\ extent.temporal.intervals[1][1] \in ItemTimes
        /\ extent.temporal.intervals[1][2] \in ItemTimes
        /\ \A t \in ItemTimes : /\ extent.temporal.intervals[1][1] <= t
                                /\ t <= extent.temporal.intervals[1][2]

\* C4 witness: three items, the last one's datetime strictly between the
\* datetimes of the first two, which come latest first
C4_Witness ==
    /\ ExtentReturned
    /\ Len(stac_item_list) = 3
    /\ stac_item_list[2].datetime < stac_item_list[3].datetime
    /\ stac_item_list[3].datetime < stac_item_list[1].datetime

\* C5: exactly one bounding box; it contains every footprint and each of its
\* four sides is touched by some footprint.
C5_BBoxOfUnion ==
    ExtentReturned =>
        LET all == UNION {Corners(stac_item_list[i]) :
                             i \in 1..Len(stac_item_list)}
            bb == BBox(extent)
        IN  /\ Len(extent.spatial.bboxes) = 1
            /\ \A p \in all : /\ bb[1] <= p[1] /\ p[1] <= bb[3]
                              /\ bb[2] <= p[2] /\ p[2] <= bb[4]
            /\ \E p \in all : p[1] = bb[1]
            /\ \E p \in all : p[2] = bb[2]
            /\ \E p \in all : p[1] = bb[3]
            /\ \E p \in all : p[2] = bb[4]

\* C5 witness: two tiles that do not overlap, neither containing the other's
\* extent, with the extent computed
C5_Witness ==
    /\ ExtentReturned
    /\ Len(stac_item_list) = 2
    /\ ~Overlap(Rect(stac_item_list[1]), Rect(stac_item_list[2]))
    /\ BBox(extent) # Rect(stac_item_list[1])
    /\ BBox(extent) # Rect(stac_item_list[2])

-----------------------------------------------------------------------------
(* create_item and create_collection                                       *)

\* longest href among the bounded inputs of create_item
MaxHrefLen == 3
\* at most this many items in one catalog build
MaxTiles == 3

WSF2019_ID == "DLR-WSF2019"
WSF2019_TITLE == "WSF2019: world settlement footprint 2019"
WSF2019_DESCRIPTION == "DLR stuff"
WSF2019_LICENSE == "PDDL-1.0"
DLR_PROVIDER ==
    [name |-> "German Aerospace Agency, DLR",
     url |-> "https://download.geoservice.dlr.de/WSF2019/files/",
     roles |-> <<"producer", "licensor">>]
WSF2019_BANDS ==
    <<[name |-> "Settlement",
       description |-> "Binary mask representing settlement"]>>

\* the precision create_item asks of reproject_geom
ItemPrecision == 6
\* dateutil.parser.isoparse("2019-01-01"), as a year
dt == 2019

\* a string is a sequence of one-character strings
HrefChars == {"a", "-", ".", "/"}
RECURSIVE StringsOfLen(_)
StringsOfLen(n) ==
    IF n = 0 THEN {<<>>}
    ELSE {Append(w, ch) : w \in StringsOfLen(n - 1), ch \in HrefChars}
\* the href of the comment at line 147, and the same tile without the sign
ExampleHref ==
    <<"d", "a", "t", "a", "/", "W", "S", "F", "2", "0", "1", "9", "_", "v",
      "1", "_", "-", "1", "0", "0", "_", "1", "6", ".", "t", "i", "f">>
UnsignedHref ==
    <<"d", "a", "t", "a", "/", "W", "S", "F", "2", "0", "1", "9", "_", "v",
      "1", "_", "1", "0", "0", "_", "1", "6", ".", "t", "i", "f">>
Hrefs ==
    UNION {StringsOfLen(n) : n \in 0..MaxHrefLen}
        \cup {ExampleHref, UnsignedHref}

\* the raster metadata rio.open gives: CRS, pixel size, pixel shape, bounds in
\* the CRS, affine transform
Dataset(b) ==
    [crs |-> "epsg:32633", res |-> <<10 * Unit, 10 * Unit>>,
     shape |-> <<1113, 1024>>, bounds |-> b,
     transform |-> <<10 * Unit, 0, b[1], 0, 0 - 10 * Unit, b[4], 0, 0, Unit>>]
SampleDatasets ==
    {Dataset(<<0, 0, Unit, Unit>>), Dataset(<<Unit + 1, 5, 2 * Unit + 4, Unit + 8>>)}

\* int(crs.to_authority()[1])
to_authority_code(crs) == IF crs = "epsg:32633" THEN 32633 ELSE 4326

\* str.rfind(ch): the last position of ch, 0 when there is none
rfind(p, ch) ==
    IF \E i \in 1..Len(p) : p[i] = ch
    THEN MaxOf({i \in 1..Len(p) : p[i] = ch})
    ELSE 0

\* os.path.basename: what follows the last "/"
basename(p) == SubSeq(p, rfind(p, "/") + 1, Len(p))

\* os.path.splitext: the extension starts at the last dot after the last "/",
\* unless only dots come before it in the file name
splitext(p) ==
    LET sepIndex == rfind(p, "/")
        dotIndex == rfind(p, ".")
        RECURSIVE Scan(_)
        Scan(filenameIndex) ==
            IF filenameIndex >= dotIndex THEN <<p, <<>>>>
            ELSE IF p[filenameIndex] # "."
            THEN <<SubSeq(p, 1, dotIndex - 1), SubSeq(p, dotIndex, Len(p))>>
            ELSE Scan(filenameIndex + 1)
    IN  IF dotIndex > sepIndex THEN Scan(sepIndex + 1) ELSE <<p, <<>>>>

replace_first(str, old, new) ==
    IF \E i \in 1..Len(str) : str[i] = old
    THEN LET i == CHOOSE j \in 1..Len(str) :
                      str[j] = old /\ \A m \in 1..(j - 1) : str[m] # old
         IN  SubSeq(str, 1, i - 1) \o new \o SubSeq(str, i + 1, Len(str))
    ELSE str

\* str.replace(old, new) for a one-character old: every occurrence
RECURSIVE replace(_, _, _)
replace(str, old, new) ==
    IF str = <<>> THEN <<>>
    ELSE (IF Head(str) = old THEN new ELSE <<Head(str)>>)
             \o replace(Tail(str), old, new)

\* lines 148-149
item_id(href) == replace(splitext(basename(href))[1], "-", <<>>)

\* the item, or [st |-> the exception reproject_geom raised]
create_item(href, dataset, coll) ==
    LET box == alloc(<<>>, mapping_box(dataset.bounds))
        r == reproject_geom(box.h, box.e, dataset.crs, "epsg:4326", ItemPrecision)
    IN  IF r.err # "none" THEN [st |-> r.err]
        ELSE LET g == Value(r.h, r.e)
             IN  [st |-> "returned",
                  id |-> item_id(href),
                  geometry |-> g,
                  bbox |-> bounds({shape(g)}, <<>>),
                  datetime |-> dt,
                  properties |-> <<>>,
                  providers |-> <<DLR_PROVIDER>>,
                  gsd |-> dataset.res[1],
                  collection |-> coll,
                  epsg |-> to_authority_code(dataset.crs),
                  proj_shape |-> dataset.shape,
                  proj_bbox |-> dataset.bounds,
                  proj_transform |-> dataset.transform,
                  assets |-> [image |-> [href |-> href, roles |-> <<"data">>,
                                         title |-> "Binary mask COG tile",
                                         bands |-> WSF2019_BANDS]]]

create_collection(ext) ==
    [id |-> WSF2019_ID,
     description |-> WSF2019_DESCRIPTION,
     title |-> WSF2019_TITLE,
     href |-> "data/",
     license |-> WSF2019_LICENSE,
     providers |-> <<DLR_PROVIDER>>,
     extent |-> ext,
     item_assets |-> [image |-> [bands |-> WSF2019_BANDS, roles |-> <<"data">>,
                                 title |-> "Binary Mask COG tile"]]]

\* the value passed for `collection` where no collection exists yet
NoCollection == [id |-> "None"]

-----------------------------------------------------------------------------
(* Specification of one create_item call                                   *)

InitItem ==
    /\ IdleGeom
    /\ IdleExtent
    /\ IdleCatalog
    /\ cog_href \in Hrefs
    /\ ds \in SampleDatasets
    /\ collection \in
          {NoCollection,
           create_collection([spatial |-> [bboxes |-> <<<<0, 0, Unit, Unit>>>>],
                              temporal |-> [intervals |-> <<<<dt, dt>>>>]])}
    /\ item = [st |-> "not called"]

CreateItem ==
    /\ item.st = "not called"
    /\ item' = create_item(cog_href, ds, collection)
    /\ UNCHANGED <<cog_href, ds, collection>>
    /\ UNCHANGED <<geomVars, extentVars, catalogVars>>

NextItem == CreateItem

SpecItem == InitItem /\ [][NextItem]_vars

-----------------------------------------------------------------------------
(* Specification of a catalog build: a caller that calls the three         *)
(* functions in any order, with the values it holds as arguments           *)

TileHrefs == {ExampleHref, UnsignedHref}
\* the raster file behind each href
TileFile(href) ==
    IF href = ExampleHref THEN Dataset(<<0, 0, Unit, Unit>>)
    ELSE Dataset(<<Unit, 0, 2 * Unit, Unit>>)

InitCatalog ==
    /\ IdleGeom
    /\ IdleExtent
    /\ IdleItem
    /\ IdleCatalog

\* create_item(href, c): c is None or the collection built so far
DriverCreateItem ==
    /\ Len(items) < MaxTiles
    /\ \E href \in TileHrefs :
         \E c \in {NoCollection, built_collection} :
            /\ cog_href' = href
            /\ ds' = TileFile(href)
            /\ collection' = c
            /\ item' = create_item(href, TileFile(href), c)
            /\ items' = Append(items, item')
    /\ UNCHANGED <<geomVars, extentVars, built_collection>>

\* create_full_extent(items)
DriverCreateFullExtent ==
    /\ \E eb \in IF items = <<>> THEN EmptyBoundsOutcomes ELSE {<<>>} :
         LET r == create_full_extent(items, eb)
         IN  /\ stac_item_list' = items
             /\ extent' = [st |-> r.st, spatial |-> r.spatial,
                           temporal |-> r.temporal]
             /\ constructed' = r.constructed
    /\ UNCHANGED <<geomVars, itemVars, catalogVars>>

\* create_collection(extent), with an extent create_full_extent returned
DriverCreateCollection ==
    /\ extent.st = "returned"
    /\ built_collection' =
          create_collection([spatial |-> extent.spatial,
                             temporal |-> extent.temporal])
    /\ UNCHANGED <<geomVars, extentVars, itemVars, items>>

NextCatalog ==
    \/ DriverCreateItem
    \/ DriverCreateFullExtent
    \/ DriverCreateCollection

SpecCatalog == InitCatalog /\ [][NextCatalog]_vars

-----------------------------------------------------------------------------
(* Properties of create_item and of a catalog build                        *)

ItemCreated == item.st = "returned"
NoHyphen(ch) == ch # "-"
\* the base filename with its extension dropped
Stem(href) == splitext(basename(href))[1]

\* C7 (as stated): the id is the base filename without its extension and
\* without hyphens, and two hrefs whose base filenames differ only in hyphens
\* get the same id.
C7_IdNormalized ==
    ItemCreated =>
        /\ item.id = SelectSeq(Stem(cog_href), NoHyphen)
        /\ \A i \in 1..Len(item.id) : item.id[i] # "-"
        /\ \A h \in Hrefs :
              SelectSeq(basename(h), NoHyphen)
                      = SelectSeq(basename(cog_href), NoHyphen)
                  => item_id(h) = item.id

\* C7 (amended): the id is the base filename without its extension and
\* without hyphens, and two hrefs whose base filenames without their
\* extensions differ only in hyphens get the same id.
C7_IdNormalizedStem ==
    ItemCreated =>
        /\ item.id = SelectSeq(Stem(cog_href), NoHyphen)
        /\ \A i \in 1..Len(item.id) : item.id[i] # "-"
        /\ \A h \in Hrefs :
              SelectSeq(Stem(h), NoHyphen) = SelectSeq(Stem(cog_href), NoHyphen)
                  => item_id(h) = item.id

\* C7 witness: the item of ".../WSF2019_v1_-100_16.tif", whose id is
\* "WSF2019_v1_100_16", the id of the unsigned tile too
C7_Witness ==
    /\ ItemCreated
    /\ cog_href = ExampleHref
    /\ item.id = <<"W", "S", "F", "2", "0", "1", "9", "_", "v", "1", "_",
                   "1", "0", "0", "_", "1", "6">>
    /\ item_id(UnsignedHref) = item.id

\* C10 (as stated): no create_item call takes a collection as an input,
\* neither one create_collection produced (create_collection would then have
\* run before the items were complete) nor a placeholder for it.
C10_ItemsNeedNoCollection ==
    \A i \in 1..Len(items) :
        /\ items[i].collection.id # WSF2019_ID
        /\ items[i].collection.id # NoCollection.id

====
